---- MODULE Spec2Model ----
(***************************************************************************)
(* State-machine model of xps_plotter.py: the interactive protocol, the    *)
(* reset of the report files, the loop over the .dat files of the folder,  *)
(* the per-line statistics and threshold filter, the plots and the final   *)
(* summary.  One user session (a run of the script) follows another on the *)
(* same folder and disk.                                                   *)
(*                                                                         *)
(* Text is modelled as strings: a data line is the sequence of its fields  *)
(* after line.split(delimit), the last field being the empty remainder     *)
(* after the trailing tab.  Floats are modelled as exact rationals         *)
(* <<numerator, denominator>> in lowest terms; the catalogue of scan       *)
(* lines holds only lines whose variance is the square of a rational, so   *)
(* that np.sqrt is exact on every value the model reaches.                 *)
(***************************************************************************)
EXTENDS Integers, Sequences, FiniteSets, TLC

(* ------------------------------ bounds -------------------------------- *)

\* files in the folder (glob.glob("*.dat") returns at most this many)
MaxFiles == 2
\* successive runs of the script on the same folder
MaxRuns == 2
\* iterations of the line loop explored on a line it never leaves
MaxSpin == 2

(* ------------------------ floats as rationals ------------------------- *)

Abs(a) == IF a < 0 THEN 0 - a ELSE a

RECURSIVE GCD(_, _)
GCD(a, b) == IF b = 0 THEN a ELSE GCD(b, a % b)

\* n/d in lowest terms, d > 0
Rat(n, d) == LET g == GCD(Abs(n), d) IN <<n \div g, d \div g>>

FAdd(a, b) == Rat(a[1] * b[2] + b[1] * a[2], a[2] * b[2])
FSub(a, b) == Rat(a[1] * b[2] - b[1] * a[2], a[2] * b[2])
FMul(a, b) == Rat(a[1] * b[1], a[2] * b[2])
\* a / k for a positive count k
FDiv(a, k) == Rat(a[1], a[2] * k)
FGt(a, b) == a[1] * b[2] > b[1] * a[2]
FGe(a, b) == a[1] * b[2] >= b[1] * a[2]

ISqrt(n) == CHOOSE k \in 0..n : k * k = n
\* np.sqrt, exact on the squares of rationals
sqrt(v) == <<ISqrt(v[1]), ISqrt(v[2])>>

\* the decimal numerals that occur in the inputs of the model
Numeral ==
    ("0" :> 0) @@ ("1" :> 1) @@ ("2" :> 2) @@ ("3" :> 3) @@ ("5" :> 5)
    @@ ("10" :> 10) @@ ("12" :> 12) @@ ("15" :> 15) @@ ("20" :> 20)
    @@ ("25" :> 25) @@ ("30" :> 30) @@ ("40" :> 40) @@ ("-1" :> (0 - 1))

\* float(s) raises ValueError unless s is a numeral
IsNumber(s) == s \in DOMAIN Numeral
float(s) == Rat(Numeral[s], 1)

(* ------------------------------ lists --------------------------------- *)

In(s, v) == \E i \in 1..Len(s) : s[i] = v

\* list.remove(v): drops the first entry equal to v
Remove(s, v) ==
    LET i == CHOOSE k \in 1..Len(s) : s[k] = v /\ \A j \in 1..(k - 1) : s[j] # v
    IN  SubSeq(s, 1, i - 1) \o SubSeq(s, i + 1, Len(s))

RECURSIVE FMax(_)
\* max(list) of a non-empty list of floats
FMax(s) ==
    IF Len(s) = 1 THEN s[1]
    ELSE LET m == FMax(Tail(s)) IN IF FGt(m, s[1]) THEN m ELSE s[1]

(* ------------------------- the scan files ----------------------------- *)

\* one sweep, no sum column
S1 == <<"1", "10", "">>
S2 == <<"2", "20", "">>
\* two sweeps and their sum
D1 == <<"1", "10", "20", "30", "">>
D3 == <<"3", "10", "15", "25", "">>
D4 == <<"2", "10", "30", "40", "">>
\* four fields: one sweep and a sum column
Q1 == <<"3", "10", "12", "">>
\* fewer than three fields
Short == <<"3", "">>
Blank == <<"">>

\* the data lines of a file, after its header line
HeaderOnly == <<>>
SingleSweep == <<S1, S2>>
TwoSweep == <<D1, D4>>
Repeats == <<S1, S2, D1>>
Mixed == <<D3, Q1>>
ShortLine == <<S1, Short, S2>>
BlankLine == <<S1, Blank>>

ScanFiles ==
    {HeaderOnly, SingleSweep, TwoSweep, Repeats, Mixed, ShortLine, BlankLine}

Folders == UNION {[1..n -> ScanFiles] : n \in 0..MaxFiles}

(* ------------------------- the user's answers ------------------------- *)

Unasked == ""

\* line 62
ConfirmOk(s) == s = "y"

\* as NumberOk, without the check of the sign
NumberOkUnsigned(s) == IsNumber(s)

\* lines 100-112: float(entered_value) succeeds and the value is >= 0
NumberOk(s) == IsNumber(s) /\ FGe(float(s), float("0"))

\* lines 123-130
ChoiceOk(s) == s \in {"i", "b", "f", "I", "B", "F"}

\* What the user types at the prompts of one session; a prompt the script
\* never reaches has no answer.
Sessions ==
    {a \in [initial_message : {"y", "n"},
            photon_energy : {"10", "abc", "-1", Unasked},
            std_input : {"0", "5", "abc", "-1", Unasked},
            output_plot_choice : {"i", "b", "f", "I", "B", "F", "x", Unasked}] :
        /\ (a.photon_energy # Unasked) = ConfirmOk(a.initial_message)
        /\ (a.std_input # Unasked) = ConfirmOk(a.initial_message)
        /\ (a.output_plot_choice # Unasked) =
               (/\ ConfirmOk(a.initial_message)
                /\ NumberOk(a.photon_energy)
                /\ NumberOk(a.std_input))}

(* ------------------------------ the disk ------------------------------ *)

Absent == [exists |-> FALSE, lines |-> <<>>]

\* open(name, "a+"); print(entry, file=...); close()
AppendLine(f, entry) == [exists |-> TRUE, lines |-> Append(f.lines, entry)]

NoReports == [std_file |-> Absent, excluded_file |-> Absent, included_file |-> Absent]

\* reports left behind by an earlier session
OldReports ==
    [std_file |-> AppendLine(Absent, <<0, 1, 2, float("0")>>),
     excluded_file |-> AppendLine(Absent, <<0, <<>>>>),
     included_file |-> AppendLine(Absent, <<0, <<1>>>>)]

(* ------------------------------- state -------------------------------- *)

VARIABLES
    answers,            \* the answers the user gives in every session
    folder,             \* per .dat name of the current directory, the data
                        \* lines of the file of that name under the
                        \* selected folder (none when there is no such file)
    in_folder,          \* per .dat name, whether the selected folder has it
    reports,            \* std_file.txt, excluded_... and included_datapoints_file.txt
    figures,            \* the files whose "Figure for ..." plot is on disk
    final_plot,         \* "Final combined plot.png" is on disk
    start_disk,         \* the disk as the current run found it
    run,                \* number of the current run
    pc,                 \* position of the script
    initial_message, photon_energy, std_input, output_plot_choice,
    count,              \* files of the folder entered so far
    infile,             \* data lines read from the open file
    line,               \* the current line, <<>> at end of file
    line_number, datapoint_number,
    binding_energy, mean_intensity, point_standard_deviation,
    point_bound,        \* point_standard_deviation is a bound name
    xaxis, yaxis, fp_xaxis, fp_yaxis,
    standard_deviations_list, excluded_point_numbers, included_point_numbers,
    printed             \* the maximum printed by the summary, if any

env == <<answers, folder, in_folder>>
disk == <<reports, figures, final_plot>>
config == <<initial_message, photon_energy, std_input, output_plot_choice>>
cursor == <<count, infile, line, line_number>>
point ==
    <<datapoint_number, binding_energy, mean_intensity, point_standard_deviation,
      point_bound>>
series == <<xaxis, yaxis, fp_xaxis, fp_yaxis>>
lists == <<standard_deviations_list, excluded_point_numbers, included_point_numbers>>
memory == <<cursor, point, series, lists, printed>>
vars == <<env, disk, start_disk, run, pc, config, memory>>

Terminal == {"done", "exited", "crashed"}

\* a fresh interpreter: no answer read, no name bound
FreshMemory ==
    /\ initial_message = Unasked /\ photon_energy = Unasked
    /\ std_input = Unasked /\ output_plot_choice = Unasked
    /\ count = 0 /\ infile = 0 /\ line = <<>> /\ line_number = 0
    /\ datapoint_number = 0
    /\ binding_energy = float("0") /\ mean_intensity = float("0")
    /\ point_standard_deviation = float("0") /\ point_bound = FALSE
    /\ xaxis = <<>> /\ yaxis = <<>> /\ fp_xaxis = <<>> /\ fp_yaxis = <<>>
    /\ standard_deviations_list = <<>>
    /\ excluded_point_numbers = <<>> /\ included_point_numbers = <<>>
    /\ printed = <<>>

Init ==
    /\ answers \in Sessions
    /\ folder \in Folders
    /\ in_folder \in [1..Len(folder) -> BOOLEAN]
    /\ \A i \in 1..Len(folder) : ~in_folder[i] => folder[i] = <<>>
    /\ reports \in {NoReports, OldReports}
    /\ figures = {}
    /\ final_plot = (reports = OldReports)
    /\ start_disk = <<reports, figures, final_plot>>
    /\ run = 1
    /\ pc = "confirm"
    /\ FreshMemory

(* --------------------- the per-line statistics ------------------------ *)

\* line 256, as a Python (0-based) index into datapoint
IntensitySumIndex(datapoint) == Len(datapoint) - 2

\* line 257
NumSweeps(datapoint) == IntensitySumIndex(datapoint) - 1

\* the fields float() is applied to on a line of three or more fields
FieldsParse(datapoint) == \A i \in 1..(Len(datapoint) - 1) : IsNumber(datapoint[i])

\* as MeanIntensity, with the single reading of a one-sweep line averaged as
\* if it were the sum of two sweeps
MeanIntensityHalved(datapoint) ==
    LET total == float(datapoint[IntensitySumIndex(datapoint) + 1])
    IN  IF NumSweeps(datapoint) > 0
        THEN FDiv(total, NumSweeps(datapoint))
        ELSE FDiv(total, 2)

\* lines 260-266, for NumSweeps(datapoint) >= 0
MeanIntensity(datapoint) ==
    LET total == float(datapoint[IntensitySumIndex(datapoint) + 1])
    IN  IF NumSweeps(datapoint) > 0
        THEN FDiv(total, NumSweeps(datapoint))
        ELSE FDiv(total, 1)

\* lines 276-285: datapoint[1:intensity_sum_index], or with the sum index
\* included when the line has three fields
IntensitiesInALine(datapoint) ==
    IF Len(datapoint) > 3
    THEN SubSeq(datapoint, 2, IntensitySumIndex(datapoint))
    ELSE IF Len(datapoint) = 3
         THEN SubSeq(datapoint, 2, IntensitySumIndex(datapoint) + 1)
         ELSE <<>>

RECURSIVE SquaredDeviations(_, _)
\* lines 289-293
SquaredDeviations(intensities, mean) ==
    IF intensities = <<>> THEN float("0")
    ELSE LET d == FSub(float(Head(intensities)), mean)
         IN  FAdd(FMul(d, d), SquaredDeviations(Tail(intensities), mean))

\* lines 289-295
PointStandardDeviation(datapoint) ==
    LET intensities == IntensitiesInALine(datapoint)
    IN  sqrt(FDiv(SquaredDeviations(intensities, MeanIntensity(datapoint)),
                  Len(intensities)))

\* line 250
BindingEnergy(photon, datapoint) == FSub(float(photon), float(datapoint[1]))

(* ----------------------- the threshold filter ------------------------- *)

\* line 187
AboveThreshold(deviation, threshold) == FGt(deviation, float(threshold))

\* standard_deviation_threshold() on the globals g: the globals it leaves,
\* and the exception it raises, if any.  Without a bound
\* point_standard_deviation the comparison raises NameError; a remove() of
\* a value the list does not hold raises ValueError.
standard_deviation_threshold(g) ==
    IF ~g.point_bound THEN [g EXCEPT !.raised = "NameError"]
    ELSE IF AboveThreshold(g.point_standard_deviation, g.std_input)
    THEN \* line 190 on xaxis, then on fp_xaxis; line 192 on yaxis, then on
         \* fp_yaxis; the first remove() that fails ends the call
         IF ~In(g.xaxis, g.binding_energy)
         THEN [g EXCEPT !.raised = "ValueError"]
         ELSE IF ~In(g.fp_xaxis, g.binding_energy)
         THEN [g EXCEPT !.raised = "ValueError",
                        !.xaxis = Remove(g.xaxis, g.binding_energy)]
         ELSE IF ~In(g.yaxis, g.mean_intensity)
         THEN [g EXCEPT !.raised = "ValueError",
                        !.xaxis = Remove(g.xaxis, g.binding_energy),
                        !.fp_xaxis = Remove(g.fp_xaxis, g.binding_energy)]
         ELSE IF ~In(g.fp_yaxis, g.mean_intensity)
         THEN [g EXCEPT !.raised = "ValueError",
                        !.xaxis = Remove(g.xaxis, g.binding_energy),
                        !.fp_xaxis = Remove(g.fp_xaxis, g.binding_energy),
                        !.yaxis = Remove(g.yaxis, g.mean_intensity)]
         ELSE [g EXCEPT
                 !.xaxis = Remove(g.xaxis, g.binding_energy),
                 !.fp_xaxis = Remove(g.fp_xaxis, g.binding_energy),
                 !.yaxis = Remove(g.yaxis, g.mean_intensity),
                 !.fp_yaxis = Remove(g.fp_yaxis, g.mean_intensity),
                 !.excluded_point_numbers =
                     Append(g.excluded_point_numbers, g.datapoint_number)]
    ELSE [g EXCEPT
            !.included_point_numbers =
                Append(g.included_point_numbers, g.datapoint_number)]

(* ------------------------ the interactive protocol -------------------- *)

\* lines 57-68
Confirm ==
    /\ pc = "confirm"
    /\ initial_message' = answers.initial_message
    /\ pc' = IF ConfirmOk(answers.initial_message) THEN "photon" ELSE "exited"
    /\ UNCHANGED <<env, disk, start_disk, run, memory,
                   photon_energy, std_input, output_plot_choice>>

\* lines 86-87: the reply is stored as typed; nothing is checked yet
EnterPhotonEnergy ==
    /\ pc = "photon"
    /\ photon_energy' = answers.photon_energy
    /\ pc' = "threshold"
    /\ UNCHANGED <<env, disk, start_disk, run, memory,
                   initial_message, std_input, output_plot_choice>>

\* lines 93-112: the second reply, then the validation of both
EnterNumbers ==
    /\ pc = "threshold"
    /\ std_input' = answers.std_input
    /\ pc' = IF NumberOk(photon_energy) /\ NumberOk(answers.std_input)
             THEN "mode" ELSE "exited"
    /\ UNCHANGED <<env, disk, start_disk, run, memory,
                   initial_message, photon_energy, output_plot_choice>>

\* lines 119-130
ChooseOutput ==
    /\ pc = "mode"
    /\ output_plot_choice' = answers.output_plot_choice
    /\ pc' = IF ChoiceOk(answers.output_plot_choice) THEN "reset" ELSE "exited"
    /\ UNCHANGED <<env, disk, start_disk, run, memory,
                   initial_message, photon_energy, std_input>>

\* as ResetReport, with the old file left in place
KeepReport(f) == f

\* lines 141-142, for one report file
ResetReport(f) == Absent

\* lines 138-144
ResetReports ==
    /\ pc = "reset"
    /\ reports' = [std_file |-> ResetReport(reports.std_file),
                   excluded_file |-> ResetReport(reports.excluded_file),
                   included_file |-> ResetReport(reports.included_file)]
    /\ pc' = "files"
    /\ UNCHANGED <<env, figures, final_plot, start_disk, run, config, memory>>

(* --------------------------- the file loop ---------------------------- *)

\* infile.readline() after n data lines have been read
ReadLine(file, n) == IF n < Len(file) THEN file[n + 1] ELSE <<>>

\* line 225
NewStandardDeviationsList(old) == <<>>

\* lines 208-233: the next file of the folder; a file that does not exist
\* under the selected folder is passed over
OpenFile ==
    /\ pc = "files"
    /\ count < Len(folder)
    /\ count' = count + 1
    /\ IF in_folder[count + 1]
       THEN /\ xaxis' = <<>>
            /\ yaxis' = <<>>
            /\ standard_deviations_list' =
                   NewStandardDeviationsList(standard_deviations_list)
            /\ excluded_point_numbers' = <<>>
            /\ included_point_numbers' = <<>>
            /\ line' = ReadLine(folder[count + 1], 0)
            /\ infile' = 1
            /\ line_number' = 1
            /\ pc' = "lines"
       ELSE /\ pc' = "files"
            /\ UNCHANGED <<xaxis, yaxis, lists, line, infile, line_number>>
    /\ UNCHANGED <<env, disk, start_disk, run, config, point, fp_xaxis, fp_yaxis,
                   printed>>

\* the globals the filter reads and writes
Globals ==
    [raised |-> "",
     point_bound |-> point_bound,
     point_standard_deviation |-> point_standard_deviation,
     std_input |-> std_input,
     binding_energy |-> binding_energy,
     mean_intensity |-> mean_intensity,
     datapoint_number |-> datapoint_number,
     xaxis |-> xaxis, yaxis |-> yaxis,
     fp_xaxis |-> fp_xaxis, fp_yaxis |-> fp_yaxis,
     excluded_point_numbers |-> excluded_point_numbers,
     included_point_numbers |-> included_point_numbers]

\* an uncaught exception that ends the process with nothing changed
Crash ==
    /\ pc' = "crashed"
    /\ UNCHANGED <<env, disk, start_disk, run, config, memory>>

\* lines 234-310: one iteration of the line loop
ProcessLine ==
    /\ pc = "lines"
    /\ line # <<>>
    /\ line_number' = line_number + 1
    /\ datapoint_number' = line_number
    /\ LET datapoint == line IN
       IF ~IsNumber(datapoint[1])
       THEN \* line 249 raises ValueError
            /\ pc' = "crashed"
            /\ UNCHANGED <<env, disk, start_disk, run, config, count, infile, line,
                           binding_energy, mean_intensity, point_standard_deviation,
                           point_bound, series, lists, printed>>
       ELSE IF NumSweeps(datapoint) < 0
       THEN \* lines 251-252 and 267-270: continue, with the same line
            /\ line_number < infile + MaxSpin
            /\ binding_energy' = BindingEnergy(photon_energy, datapoint)
            /\ xaxis' = Append(xaxis, binding_energy')
            /\ fp_xaxis' = Append(fp_xaxis, binding_energy')
            /\ UNCHANGED <<env, disk, start_disk, run, pc, config, count, infile,
                           line, mean_intensity, point_standard_deviation,
                           point_bound, yaxis, fp_yaxis, lists, printed>>
       ELSE IF ~IsNumber(datapoint[IntensitySumIndex(datapoint) + 1])
       THEN \* line 262 or 266 raises ValueError, after lines 250-252
            /\ pc' = "crashed"
            /\ binding_energy' = BindingEnergy(photon_energy, datapoint)
            /\ xaxis' = Append(xaxis, binding_energy')
            /\ fp_xaxis' = Append(fp_xaxis, binding_energy')
            /\ UNCHANGED <<env, disk, start_disk, run, config, count, infile, line,
                           mean_intensity, point_standard_deviation, point_bound,
                           yaxis, fp_yaxis, lists, printed>>
       ELSE IF ~FieldsParse(datapoint)
       THEN \* line 292 raises ValueError, after lines 250-272
            /\ pc' = "crashed"
            /\ binding_energy' = BindingEnergy(photon_energy, datapoint)
            /\ xaxis' = Append(xaxis, binding_energy')
            /\ fp_xaxis' = Append(fp_xaxis, binding_energy')
            /\ mean_intensity' = MeanIntensity(datapoint)
            /\ yaxis' = Append(yaxis, mean_intensity')
            /\ fp_yaxis' = Append(fp_yaxis, mean_intensity')
            /\ UNCHANGED <<env, disk, start_disk, run, config, count, infile, line,
                           point_standard_deviation, point_bound, lists, printed>>
       ELSE LET after == standard_deviation_threshold(
                    [Globals EXCEPT
                       !.point_bound = TRUE,
                       !.point_standard_deviation = PointStandardDeviation(datapoint),
                       !.binding_energy = BindingEnergy(photon_energy, datapoint),
                       !.mean_intensity = MeanIntensity(datapoint),
                       !.datapoint_number = line_number,
                       !.xaxis = Append(xaxis, BindingEnergy(photon_energy, datapoint)),
                       !.fp_xaxis =
                           Append(fp_xaxis, BindingEnergy(photon_energy, datapoint)),
                       !.yaxis = Append(yaxis, MeanIntensity(datapoint)),
                       !.fp_yaxis = Append(fp_yaxis, MeanIntensity(datapoint))])
            IN  /\ binding_energy' = after.binding_energy
                /\ mean_intensity' = after.mean_intensity
                /\ point_standard_deviation' = after.point_standard_deviation
                /\ point_bound' = TRUE
                /\ standard_deviations_list' =
                       Append(standard_deviations_list, after.point_standard_deviation)
                /\ reports' =
                       [reports EXCEPT
                          !.std_file =
                              AppendLine(@, <<count, after.datapoint_number,
                                              line_number + 1,
                                              after.point_standard_deviation>>)]
                /\ xaxis' = after.xaxis
                /\ yaxis' = after.yaxis
                /\ fp_xaxis' = after.fp_xaxis
                /\ fp_yaxis' = after.fp_yaxis
                /\ excluded_point_numbers' = after.excluded_point_numbers
                /\ included_point_numbers' = after.included_point_numbers
                /\ IF after.raised = ""
                   THEN \* line 310
                        /\ line' = ReadLine(folder[count], infile)
                        /\ infile' = infile + 1
                        /\ pc' = "lines"
                   ELSE \* an exception of the filter that it does not catch
                        /\ pc' = "crashed"
                        /\ UNCHANGED <<line, infile>>
                /\ UNCHANGED <<env, figures, final_plot, start_disk, run, config,
                               count, printed>>

\* lines 323-325
SavesFigure(choice) == choice # "f" /\ choice # "F"

\* lines 312-337: the end of the line loop of a file
FinishFile ==
    /\ pc = "lines"
    /\ line = <<>>
    /\ figures' = IF SavesFigure(output_plot_choice)
                  THEN figures \cup {count} ELSE figures
    /\ reports' =
           [reports EXCEPT
              !.excluded_file = AppendLine(@, <<count, excluded_point_numbers>>),
              !.included_file = AppendLine(@, <<count, included_point_numbers>>)]
    /\ pc' = "files"
    /\ UNCHANGED <<env, final_plot, start_disk, run, config, memory>>

(* -------------------------- after the loop ---------------------------- *)

\* lines 339-340: the call of the filter after the file loop
LastCall ==
    /\ pc = "files"
    /\ count = Len(folder)
    /\ LET after == standard_deviation_threshold(Globals) IN
       IF after.raised = "NameError"
       THEN \* lines 198-203
            /\ pc' = "exited"
            /\ UNCHANGED <<env, disk, start_disk, run, config, memory>>
       ELSE \* the lists as the call leaves them, also when a remove() of
            \* line 190 or 192 raises ValueError
            /\ xaxis' = after.xaxis
            /\ yaxis' = after.yaxis
            /\ fp_xaxis' = after.fp_xaxis
            /\ fp_yaxis' = after.fp_yaxis
            /\ excluded_point_numbers' = after.excluded_point_numbers
            /\ included_point_numbers' = after.included_point_numbers
            /\ pc' = IF after.raised = "ValueError" THEN "crashed" ELSE "plot"
            /\ UNCHANGED <<env, disk, start_disk, run, config, cursor, point,
                           standard_deviations_list, printed>>

\* the list of report names of line 138
output_file == <<"std_file.txt", "excluded_datapoints_file.txt",
                 "included_datapoints_file.txt">>

\* line 350 (the strings are compared with the list output_file)
RemovesFinalPlot(choice) == choice = "i" \/ output_file = <<"I">>

\* lines 343-355
FinalPlot ==
    /\ pc = "plot"
    /\ final_plot' = ~RemovesFinalPlot(output_plot_choice)
    /\ pc' = "summary"
    /\ UNCHANGED <<env, reports, figures, start_disk, run, config, memory>>

\* lines 358-366: max() of an empty list raises ValueError
Summary ==
    /\ pc = "summary"
    /\ IF standard_deviations_list = <<>>
       THEN Crash
       ELSE /\ printed' = <<FMax(standard_deviations_list)>>
            /\ pc' = "done"
            /\ UNCHANGED <<env, disk, start_disk, run, config, cursor, point,
                           series, lists>>

\* the user runs the script again, in the same folder, with the same answers
NextRun ==
    /\ pc \in Terminal
    /\ run < MaxRuns
    /\ run' = run + 1
    /\ start_disk' = <<reports, figures, final_plot>>
    /\ pc' = "confirm"
    /\ initial_message' = Unasked /\ photon_energy' = Unasked
    /\ std_input' = Unasked /\ output_plot_choice' = Unasked
    /\ count' = 0 /\ infile' = 0 /\ line' = <<>> /\ line_number' = 0
    /\ datapoint_number' = 0
    /\ binding_energy' = float("0") /\ mean_intensity' = float("0")
    /\ point_standard_deviation' = float("0") /\ point_bound' = FALSE
    /\ xaxis' = <<>> /\ yaxis' = <<>> /\ fp_xaxis' = <<>> /\ fp_yaxis' = <<>>
    /\ standard_deviations_list' = <<>>
    /\ excluded_point_numbers' = <<>> /\ included_point_numbers' = <<>>
    /\ printed' = <<>>
    /\ UNCHANGED <<env, disk>>

Next ==
    \/ Confirm
    \/ EnterPhotonEnergy
    \/ EnterNumbers
    \/ ChooseOutput
    \/ ResetReports
    \/ OpenFile
    \/ ProcessLine
    \/ FinishFile
    \/ LastCall
    \/ FinalPlot
    \/ Summary
    \/ NextRun

Spec == Init /\ [][Next]_vars

(* ------------------------------ claims -------------------------------- *)

\* line 308: the call of the filter in an iteration of the line loop
InLoopCall == pc = "lines" /\ pc' = "lines" /\ infile' = infile + 1

\* line 340: the call of the filter after the file loop, a datapoint bound
PostLoopCall == pc = "files" /\ count = Len(folder) /\ point_bound

\* C1: every datapoint is classified by the filter exactly once.  Every
\* call of the filter, in the line loop or after the file loop, is for the
\* datapoint of a line processed in that step, whose number is in neither
\* list yet, and raises no error; the number is appended to the excluded
\* list if and only if the standard deviation is greater than the threshold
\* and to the included list otherwise (so also when the two are equal); an
\* included datapoint keeps the pair just appended to the four series, an
\* excluded one makes each of the four one entry shorter than it was after
\* the append.
C1_ClassifiedOnce ==
    [][(InLoopCall \/ PostLoopCall) =>
        LET n == datapoint_number'
            be == binding_energy'
            mi == mean_intensity'
        IN  /\ line_number' = line_number + 1
            /\ n = line_number
            /\ pc' # "crashed"
            /\ ~In(excluded_point_numbers, n) /\ ~In(included_point_numbers, n)
            /\ IF FGt(point_standard_deviation', float(std_input))
               THEN /\ excluded_point_numbers' = Append(excluded_point_numbers, n)
                    /\ included_point_numbers' = included_point_numbers
                    /\ Len(xaxis') = Len(Append(xaxis, be)) - 1
                    /\ Len(yaxis') = Len(Append(yaxis, mi)) - 1
                    /\ Len(fp_xaxis') = Len(Append(fp_xaxis, be)) - 1
                    /\ Len(fp_yaxis') = Len(Append(fp_yaxis, mi)) - 1
               ELSE /\ included_point_numbers' = Append(included_point_numbers, n)
                    /\ excluded_point_numbers' = excluded_point_numbers
                    /\ xaxis' = Append(xaxis, be)
                    /\ yaxis' = Append(yaxis, mi)
                    /\ fp_xaxis' = Append(fp_xaxis, be)
                    /\ fp_yaxis' = Append(fp_yaxis, mi)]_vars

\* C2: after every iteration of the line loop the per-file x and y series
\* have the same length, which is the number of datapoints processed so
\* far in the file minus the number of excluded ones.
C2_SeriesLengths ==
    pc = "lines" =>
        /\ Len(xaxis) = Len(yaxis)
        /\ Len(xaxis) = (line_number - 1) - Len(excluded_point_numbers)

\* every line of the file has an energy, at least one intensity and the
\* trailing field, all numeric
WellFormed(file) ==
    \A i \in 1..Len(file) : Len(file[i]) >= 3 /\ FieldsParse(file[i])

RECURSIVE Kept(_, _)
\* the (binding energy, mean intensity) pairs of the included datapoints
\* among the first n lines of a file, in the order of the file
Kept(file, n) ==
    IF n = 0 THEN <<>>
    ELSE IF FGt(PointStandardDeviation(file[n]), float(std_input))
         THEN Kept(file, n - 1)
         ELSE Append(Kept(file, n - 1),
                     <<BindingEnergy(photon_energy, file[n]), MeanIntensity(file[n])>>)

RECURSIVE KeptOfFiles(_)
\* the same over the first k files of the folder
KeptOfFiles(k) ==
    IF k = 0 THEN <<>>
    ELSE KeptOfFiles(k - 1) \o Kept(folder[k], Len(folder[k]))

Pairs(xs, ys) == [i \in 1..Len(xs) |-> <<xs[i], ys[i]>>]

\* C3: during the file loop, over files of well-formed lines, the combined
\* series and the series of the open file hold, index by index, the pairs
\* of the included datapoints in processing order.
C3_PairsOfIncluded ==
    (/\ pc \in {"lines", "files"}
     /\ \A i \in 1..count : WellFormed(folder[i]))
    => LET closed == IF pc = "lines" THEN count - 1 ELSE count
           open == IF pc = "lines" THEN Kept(folder[count], infile - 1) ELSE <<>>
       IN  /\ Len(fp_xaxis) = Len(fp_yaxis)
           /\ Pairs(fp_xaxis, fp_yaxis) = KeptOfFiles(closed) \o open
           /\ pc = "lines" =>
                  /\ Len(xaxis) = Len(yaxis)
                  /\ Pairs(xaxis, yaxis) = open

\* C4: after a completed run the combined plot is on disk if and only if
\* the output mode is Final or Both, in either case of the letter.
C4_FinalPlotOnDisk ==
    pc = "done" => (final_plot <=> output_plot_choice \in {"f", "F", "b", "B"})

\* the answers of a session that passes every validation
ValidAnswers(a) ==
    /\ a.initial_message = "y"
    /\ a.photon_energy \in {"10"}
    /\ a.std_input \in {"0", "5"}
    /\ a.output_plot_choice \in {"i", "f", "b", "I", "F", "B"}

\* C5: with valid answers and no scan file in the folder the run ends
\* normally, with the three report files present and empty and no plot
\* written.
C5_EmptyFolder ==
    (pc \in Terminal /\ ValidAnswers(answers) /\ folder = <<>>)
    => /\ pc = "done"
       /\ reports.std_file = [exists |-> TRUE, lines |-> <<>>]
       /\ reports.excluded_file = [exists |-> TRUE, lines |-> <<>>]
       /\ reports.included_file = [exists |-> TRUE, lines |-> <<>>]
       /\ figures = start_disk[2]
       /\ final_plot = start_disk[3]

RECURSIVE DataLines(_)
\* the number of data lines of the first k files of the folder
DataLines(k) == IF k = 0 THEN 0 ELSE DataLines(k - 1) + Len(folder[k])

RECURSIVE FilesRead(_)
\* among the first k names, those the selected folder has, in order
FilesRead(k) ==
    IF k = 0 THEN <<>>
    ELSE IF in_folder[k] THEN Append(FilesRead(k - 1), k) ELSE FilesRead(k - 1)

\* the file names of the lines of a per-file report
NamesIn(report) == [i \in 1..Len(report.lines) |-> report.lines[i][1]]

\* C6: after a completed run the three reports hold one line per datapoint,
\* respectively one line per file read, of this run and nothing else; from
\* the second run on they are equal to what the previous run, with the
\* same inputs, left on disk.
C6_ReportsOfThisRun ==
    pc = "done" =>
        /\ Len(reports.std_file.lines) = DataLines(Len(folder))
        /\ NamesIn(reports.excluded_file) = FilesRead(Len(folder))
        /\ NamesIn(reports.included_file) = FilesRead(Len(folder))
        /\ run >= 2 => reports = start_disk[1]

\* a second run has completed and has written lines to all three reports
C6_Witness ==
    /\ pc = "done"
    /\ run = 2
    /\ reports.std_file.lines # <<>>
    /\ reports.excluded_file.lines # <<>>
    /\ reports.included_file.lines # <<>>

RECURSIVE DeviationsOf(_, _)
\* the standard deviations of the first n datapoints of a file
DeviationsOf(file, n) ==
    IF n = 0 THEN <<>>
    ELSE Append(DeviationsOf(file, n - 1), PointStandardDeviation(file[n]))

RECURSIVE DeviationsOfFiles(_)
\* the standard deviations of all datapoints of the first k files
DeviationsOfFiles(k) ==
    IF k = 0 THEN <<>>
    ELSE DeviationsOfFiles(k - 1) \o DeviationsOf(folder[k], Len(folder[k]))

\* C7: the summary of a completed run prints the maximum standard deviation
\* over all datapoints of all files of the run.
C7_MaximumOfRun ==
    pc = "done" => printed = <<FMax(DeviationsOfFiles(Len(folder)))>>

\* C8: once an invalid answer has been read (a confirmation other than y, a
\* non-numeric or negative photon energy or threshold, a letter outside
\* i/f/b in either case) the run has exited, with the disk as the run found
\* it and no scan file opened; the one state in which it has not exited yet
\* is the prompt for the threshold, which follows the photon energy before
\* either number is checked.
C8_InvalidInputExits ==
    (\/ initial_message \in {"n"}
     \/ photon_energy \in {"abc", "-1"}
     \/ std_input \in {"abc", "-1"}
     \/ output_plot_choice \in {"x"})
    => /\ IF pc = "threshold"
          THEN initial_message = "y" /\ std_input = Unasked
          ELSE pc = "exited"
       /\ <<reports, figures, final_plot>> = start_disk
       /\ count = 0
       /\ point_bound = FALSE

\* a run on a disk that holds old reports has exited on a negative threshold
C8_Witness ==
    /\ pc = "exited"
    /\ photon_energy = "10"
    /\ std_input = "-1"
    /\ reports = OldReports

SingleSweepFile(file) == \A i \in 1..Len(file) : Len(file[i]) = 3

\* C9: while a single-sweep file is processed, every datapoint processed so
\* far has a mean intensity equal to its raw reading and a standard
\* deviation of exactly 0, is included whatever the threshold, and has its
\* entry in the per-file series; the excluded list is empty.
C9_SingleSweep ==
    (pc = "lines" /\ SingleSweepFile(folder[count]))
    => /\ excluded_point_numbers = <<>>
       /\ included_point_numbers = [i \in 1..(infile - 1) |-> i]
       /\ Len(xaxis) = infile - 1
       /\ yaxis = [i \in 1..(infile - 1) |-> float(folder[count][i][2])]
       /\ standard_deviations_list = [i \in 1..(infile - 1) |-> float("0")]

\* the line loop has reached the end of a single-sweep file of two
\* datapoints with a threshold of 0
C9_Witness ==
    /\ pc = "lines"
    /\ line = <<>>
    /\ folder[count] = SingleSweep
    /\ std_input = "0"
    /\ included_point_numbers = <<1, 2>>
    /\ Len(yaxis) = 2

\* C10: an iteration of the line loop on a line of fewer than three fields
\* moves on to the next line of the file and stays in the loop.
C10_ShortLineSkipped ==
    [][(pc = "lines" /\ line # <<>> /\ Len(line) < 3)
       => (pc' = "lines" /\ infile' = infile + 1)]_vars

\* C11: between the end of the last file and the combined plot the filter
\* is not invoked again: once a datapoint has been processed, the step that
\* leaves the file loop goes on to the plot without an error and leaves
\* the combined series and the included and excluded lists of the last
\* file as they were.
C11_NoCallAfterLoop ==
    [][(pc = "files" /\ count = Len(folder) /\ point_bound)
       => /\ pc' = "plot"
          /\ fp_xaxis' = fp_xaxis
          /\ fp_yaxis' = fp_yaxis
          /\ included_point_numbers' = included_point_numbers
          /\ excluded_point_numbers' = excluded_point_numbers]_vars

====
